---- MODULE Spec2Model ----
(***************************************************************************)
(* Model of src/src/camera.rs: Camera::new and the multi-threaded          *)
(* Camera::render (row-band workers, progress observer, joins, image       *)
(* writer, png conversion).                                                *)
(*                                                                         *)
(* f64 values (WIDTH, Camera.width, Camera.height) are fixed-point numbers *)
(* counted in units of 1/Scale, so a non-integral width is representable.  *)
(* ASPECT_RATIO is an exact fraction <<num, den>>.  Colours are naturals,  *)
(* BLACK = 0.  The model starts where render holds the created out.ppm     *)
(* (the Ok arm of File::create, lines 78-81).                              *)
(***************************************************************************)
EXTENDS Integers, Sequences, FiniteSets, TLC

\* ---- bounds of the model ------------------------------------------------
Scale == 2          \* fixed-point resolution of an f64: units of 1/Scale
MaxWidth == 4       \* WIDTH ranges over 1/Scale .. MaxWidth/Scale
MaxAspect == 2      \* ASPECT_RATIO ranges over n/d, n, d in 1..MaxAspect
MaxThreads == 3     \* THREADS_NUM ranges over 1..MaxThreads
SAMPLE_NUM == 2     \* samples per pixel (camera.rs:13, scaled down)

VARIABLES
    conf,       \* the build-time constants WIDTH, ASPECT_RATIO, THREADS_NUM, DEFOCUS_ANGLE
    camera,     \* the Camera value: width, height, defocus_angle (f64, fixed-point)
    mainpc,     \* position of the thread running Camera::render
    mainK,      \* its loop index (thread_id when spawning, handle when joining, pixel when draining)
    header,     \* header lines written to out.ppm (<<>> before the write)
    photo,      \* pixel lines written through the writer, in order
    bufw,       \* the BufWriter: lines it still buffers, lines that reached out.ppm
    pixels,     \* the shared pixel buffer, index -> colour
    writers,    \* history: index -> sequence of the workers that stored into it
    counter,    \* the shared AtomicUsize progress counter
    lockHeld,   \* threads holding the pixel-buffer Mutex
    wpc,        \* worker -> position in its closure
    wrows,      \* worker -> <<start_row, end_row>>
    wi, wj,     \* worker -> loop indexes i (row) and j (column)
    local,      \* worker -> local_pixels
    rayCalls,   \* history: number of ray_color evaluations so far
    eyeRays,    \* history: number of sample rays that started at the eye
    diskRays,   \* history: number of sample rays that started at a defocus_sample point
    obspc,      \* position of the progress thread
    completed,  \* the progress thread's local `completed`
    printed,    \* what the progress thread printed last
    console     \* messages printed by render after the joins

vars == <<conf, camera, mainpc, mainK, header, photo, bufw, pixels, writers, counter,
          lockHeld, wpc, wrows, wi, wj, local, rayCalls, eyeRays, diskRays,
          obspc, completed, printed, console>>

BLACK == 0

\* ---- f64 helpers (fixed point) ------------------------------------------
\* `x as i64` for a non-negative f64: truncation.
AsI64(x) == x \div Scale

\* an integer as f64
AsF64(n) == n * Scale

\* Display of an f64 as `{}` prints it: integral part and fractional part.
FormatF64(x) == <<x \div Scale, x % Scale>>

\* Display of an integer-valued token.
FormatInt(n) == <<n, 0>>

\* (width / ASPECT_RATIO).max(1.0).floor(), the quotient kept exact
HeightOf(width, aspect) ==
    LET num == width * aspect[2]
        den == Scale * aspect[1]
        maxed == IF num < den THEN <<1, 1>> ELSE <<num, den>>
    IN  AsF64(maxed[1] \div maxed[2])

CameraNew(c) ==
    [width |-> c.WIDTH, height |-> HeightOf(c.WIDTH, c.ASPECT_RATIO),
     defocus_angle |-> c.DEFOCUS_ANGLE]

\* ---- locals of render ---------------------------------------------------
Width == AsI64(camera.width)
Height == AsI64(camera.height)
Total == Width * Height
NumThreads == conf.THREADS_NUM
\* variant: the chunk size rounded up instead of down
ChunkSizeCeil == (Height + NumThreads - 1) \div NumThreads

ChunkSize == Height \div NumThreads
Threads == 0 .. NumThreads - 1

HeaderOf(cam) ==
    <<"P3", <<FormatF64(cam.width), FormatF64(cam.height)>>, "255">>

\* ---- the worker closure's pure parts ------------------------------------
StartRow(thread_id) == thread_id * ChunkSize

\* variant: the last worker gets no special case, the remainder rows are dropped
EndRowNoRemainder(thread_id) == (thread_id + 1) * ChunkSize

EndRow(thread_id) ==
    IF thread_id = NumThreads - 1 THEN Height ELSE (thread_id + 1) * ChunkSize

LocalSize(rows) == (rows[2] - rows[1]) * Width

\* variant: the columns of the private buffer are mirrored
LocalIndexMirrored(i, j, start_row) == (i - start_row) * Width + (Width - 1 - j)

LocalIndex(i, j, start_row) == (i - start_row) * Width + j

\* variant: the row is added without being scaled by the width
SharedIndexSum(i, j) == i + j

\* variant: a one-based index
SharedIndexOneBased(i, j) == i * Width + j + 1

\* variant: column-major addressing
SharedIndexTransposed(i, j) == j * Height + i

SharedIndex(i, j) == i * Width + j

\* ray_color for one sample of pixel (i, j): a fixed function of the pixel
RayColor(i, j) == 1 + i * (Width + 1) + j

RECURSIVE SampleSum(_, _, _)
SampleSum(i, j, n) ==
    IF n = 0 THEN BLACK ELSE SampleSum(i, j, n - 1) + RayColor(i, j)

\* variant: `defocus_angle < 0.0` in the test of line 134
RayOriginStrict(defocus_angle) ==
    IF defocus_angle < 0 THEN "eye" ELSE "defocus_sample"

\* lines 134-138: where a sample ray starts
RayOrigin(defocus_angle) ==
    IF defocus_angle <= 0 THEN "eye" ELSE "defocus_sample"

\* the origins of the rays of `for _ in 0..sample_num`, one ray_color call each
RECURSIVE SampleOrigins(_, _)
SampleOrigins(n, defocus_angle) ==
    IF n = 0 THEN <<>>
    ELSE Append(SampleOrigins(n - 1, defocus_angle), RayOrigin(defocus_angle))

\* variant: the sum is stored without the division
SamplesAverageNoDivide(i, j) == SampleSum(i, j, SAMPLE_NUM)

SamplesAverage(i, j) == SampleSum(i, j, SAMPLE_NUM) \div SAMPLE_NUM

\* variant: the increment sits inside the sample loop
FetchAddPerSample(c) == c + SAMPLE_NUM

\* variant: fetch_sub in place of fetch_add
FetchSub(c) == c - 1

\* counter.fetch_add(1, SeqCst)
FetchAdd(c) == c + 1

\* the nested `for i in start_row..end_row { for j in 0..width` loops are over
\* at row i (a row with no column has no iteration)
LoopDone(i, rows) == i >= rows[2] \/ Width = 0

\* variant: the buffer is not guarded at all
LockFreeAlways(held) == TRUE

\* Mutex::lock returns only when no one holds the lock
LockFree(held) == held = {}

\* variant: the handles are not waited for
JoinableAlways(pc) == TRUE

\* JoinHandle::join returns once the thread has ended
Joinable(pc) == pc \in {"done", "panicked"}

\* lines 164-165: (completed / total) * 100.0 printed with {:.2}: hundredths
\* of a percent, and NaN for 0.0 / 0.0
Percentage(c, total) ==
    IF total = 0
    THEN [nan |-> c = 0, cents |-> 0]
    ELSE [nan |-> FALSE, cents |-> (2 * 100 * 100 * c + total) \div (2 * total)]

\* variant: the load is a swap that resets the counter
AfterLoadSwap(c) == 0

\* counter.load(SeqCst) leaves the counter as it is
AfterLoad(c) == c

\* variant: a strict comparison in the exit test
ObserverDoneStrict(c, total) == c > total

\* `completed >= total` of the progress loop
ObserverDone(c, total) == c >= total

\* write_color: the colour quantised to 8 bits
WriteColor(c) == IF c > 255 THEN 255 ELSE c

\* ---- the BufWriter around out.ppm --------------------------------------
\* What is written is named by position: 0 is the header, n >= 1 the n-th
\* pixel line.  Sizes and the capacity are counted in lines.
HeaderLines == 3
BufCap == 4         \* capacity of the buffer; like the real one, above any header

ItemLines(item) == IF item = 0 THEN HeaderLines ELSE 1

RECURSIVE BufLines(_)
BufLines(buf) ==
    IF buf = <<>> THEN 0 ELSE ItemLines(Head(buf)) + BufLines(Tail(buf))

\* the buffer is handed to the file (flush, and the drop of the writer)
BufFlush(w) == [buf |-> <<>>, file |-> w.file \o w.buf]

\* variant: the File is written without a BufWriter around it
BufWriteThrough(w, item) == [w EXCEPT !.file = Append(@, item)]

\* BufWriter::write_all: kept in the buffer while it fits; otherwise the
\* buffer is flushed first and what is as large as the buffer goes straight
\* to the file
BufWrite(w, item) ==
    LET size == ItemLines(item)
        spare == BufCap - BufLines(w.buf)
    IN  IF size < spare
        THEN [w EXCEPT !.buf = Append(@, item)]
        ELSE LET f == IF size > spare THEN BufFlush(w) ELSE w
             IN  IF size >= BufCap
                 THEN [f EXCEPT !.file = Append(@, item)]
                 ELSE [f EXCEPT !.buf = Append(@, item)]

\* variant: the spawning loop stops one thread short
MoreToSpawnShort(k) == k < NumThreads - 1

\* `for thread_id in 0..num_threads`: another worker is to be spawned
MoreToSpawn(k) == k < NumThreads

\* variant: the Err of a join is dropped instead of unwrapped
JoinResultIgnored(pc) == "Ok"

\* the Result of JoinHandle::join
JoinResult(pc) == IF pc = "panicked" THEN "Err" ELSE "Ok"

\* owners of the Mutex guard
WorkerGuard(t) == <<"worker", t>>
MainGuard == <<"main", 0>>

Running == mainpc \notin {"done", "aborted"}

\* ---- initial states -----------------------------------------------------
Configs ==
    [WIDTH : 1 .. MaxWidth,
     DEFOCUS_ANGLE : -1 .. 1,
     ASPECT_RATIO : (1 .. MaxAspect) \X (1 .. MaxAspect),
     THREADS_NUM : 1 .. MaxThreads]

Init ==
    /\ conf \in Configs
    /\ camera = CameraNew(conf)
    /\ mainpc = "header"
    /\ mainK = 0
    /\ header = <<>>
    /\ photo = <<>>
    /\ bufw = [buf |-> <<>>, file |-> <<>>]
    /\ pixels = <<>>
    /\ writers = <<>>
    /\ counter = 0
    /\ lockHeld = {}
    /\ wpc = [t \in Threads |-> "unspawned"]
    /\ wrows = [t \in Threads |-> <<0, 0>>]
    /\ wi = [t \in Threads |-> 0]
    /\ wj = [t \in Threads |-> 0]
    /\ local = [t \in Threads |-> <<>>]
    /\ rayCalls = 0
    /\ eyeRays = 0
    /\ diskRays = 0
    /\ obspc = "unspawned"
    /\ completed = 0
    /\ printed = <<>>
    /\ console = <<>>

\* ---- the render thread --------------------------------------------------
\* lines 82-95: header, counter, total, pixel buffer
MainHeader ==
    /\ mainpc = "header"
    /\ header' = HeaderOf(camera)
    /\ bufw' = BufWrite(bufw, 0)
    /\ counter' = 0
    /\ pixels' = [k \in 0 .. Total - 1 |-> BLACK]
    /\ writers' = [k \in 0 .. Total - 1 |-> <<>>]
    /\ mainpc' = "spawn"
    /\ mainK' = 0
    /\ UNCHANGED <<conf, camera, photo, lockHeld, wpc, wrows, wi, wj, local,
                   rayCalls, eyeRays, diskRays, obspc, completed, printed, console>>

\* lines 97-158: one iteration of the spawning loop
MainSpawnWorker ==
    /\ mainpc = "spawn"
    /\ MoreToSpawn(mainK)
    /\ wpc' = [wpc EXCEPT ![mainK] = "start"]
    /\ mainK' = mainK + 1
    /\ UNCHANGED <<conf, camera, mainpc, header, photo, bufw, pixels, writers,
                   counter, lockHeld, wrows, wi, wj, local, rayCalls, eyeRays, diskRays, obspc,
                   completed, printed, console>>

\* lines 160-171: the progress thread is spawned after the last worker
MainSpawnProgress ==
    /\ mainpc = "spawn"
    /\ ~MoreToSpawn(mainK)
    /\ obspc' = "load"
    /\ mainpc' = "join"
    /\ mainK' = 0
    /\ UNCHANGED <<conf, camera, header, photo, bufw, pixels, writers, counter,
                   lockHeld, wpc, wrows, wi, wj, local, rayCalls, eyeRays, diskRays, completed,
                   printed, console>>

\* lines 173-175: handle.join().unwrap() on the next handle
MainJoinWorker ==
    /\ mainpc = "join"
    /\ mainK < NumThreads
    /\ Joinable(wpc[mainK])
    /\ IF JoinResult(wpc[mainK]) = "Err"
       THEN \* unwrap panics; unwinding drops photo, which flushes it
            mainpc' = "aborted" /\ mainK' = mainK /\ bufw' = BufFlush(bufw)
       ELSE mainpc' = "join" /\ mainK' = mainK + 1 /\ bufw' = bufw
    /\ UNCHANGED <<conf, camera, header, photo, pixels, writers, counter,
                   lockHeld, wpc, wrows, wi, wj, local, rayCalls, eyeRays, diskRays, obspc,
                   completed, printed, console>>

\* lines 176-179: progress.join().unwrap(), the time report, pixels.lock()
MainJoinProgress ==
    /\ mainpc = "join"
    /\ mainK = NumThreads
    /\ Joinable(obspc)
    /\ LockFree(lockHeld)
    /\ lockHeld' = {MainGuard}
    /\ console' = Append(console, "Rendering time")
    /\ mainpc' = "drain"
    /\ mainK' = 0
    /\ UNCHANGED <<conf, camera, header, photo, bufw, pixels, writers, counter,
                   wpc, wrows, wi, wj, local, rayCalls, eyeRays, diskRays, obspc, completed,
                   printed>>

\* lines 180-182: one write_color of the drain loop
MainWritePixel ==
    /\ mainpc = "drain"
    /\ mainK < Total
    /\ photo' = Append(photo, WriteColor(pixels[mainK]))
    /\ bufw' = BufWrite(bufw, mainK + 1)
    /\ mainK' = mainK + 1
    /\ UNCHANGED <<conf, camera, mainpc, header, pixels, writers, counter,
                   lockHeld, wpc, wrows, wi, wj, local, rayCalls, eyeRays, diskRays, obspc,
                   completed, printed, console>>

\* lines 184-188: drop(photo), then the conversion on linux
MainDrained ==
    /\ mainpc = "drain"
    /\ mainK = Total
    /\ \E linux \in BOOLEAN :
         IF linux
         THEN /\ console' = Append(console, "Convert ppm to png")
              /\ mainpc' = "convert"
         ELSE /\ console' = Append(console, "Completed!")
              /\ mainpc' = "done"
    /\ bufw' = BufFlush(bufw)
    /\ UNCHANGED <<conf, camera, mainK, header, photo, pixels, writers,
                   counter, lockHeld, wpc, wrows, wi, wj, local, rayCalls, eyeRays, diskRays,
                   obspc, completed, printed>>

\* lines 199-215 and 189: convert_ppm_to_png, then the completion message
MainConvert ==
    /\ mainpc = "convert"
    /\ \E outcome \in {"absent", "failed", "ok"} :
         CASE outcome = "absent" ->
                \* Command::output() is Err: expect() panics
                /\ mainpc' = "aborted"
                /\ console' = Append(console, "Failed to execute command")
           [] outcome = "failed" ->
                /\ mainpc' = "done"
                /\ console' = console \o <<"Conversion failed", "Completed!">>
           [] outcome = "ok" ->
                /\ mainpc' = "done"
                /\ console' = console \o <<"Conversion successful!", "Completed!">>
    /\ UNCHANGED <<conf, camera, mainK, header, photo, bufw, pixels, writers,
                   counter, lockHeld, wpc, wrows, wi, wj, local, rayCalls, eyeRays, diskRays,
                   obspc, completed, printed>>

\* ---- a worker thread ----------------------------------------------------
\* lines 112-119: the band and the private buffer
WorkerStart(t) ==
    /\ Running
    /\ wpc[t] = "start"
    /\ LET rows == <<StartRow(t), EndRow(t)>> IN
         /\ wrows' = [wrows EXCEPT ![t] = rows]
         /\ local' = [local EXCEPT ![t] = [k \in 0 .. LocalSize(rows) - 1 |-> BLACK]]
         /\ wi' = [wi EXCEPT ![t] = rows[1]]
         /\ wj' = [wj EXCEPT ![t] = 0]
    /\ wpc' = [wpc EXCEPT ![t] = "sample"]
    /\ UNCHANGED <<conf, camera, mainpc, mainK, header, photo, bufw, pixels, writers,
                   counter, lockHeld, rayCalls, eyeRays, diskRays, obspc, completed, printed,
                   console>>

\* lines 124-147: one pixel: SAMPLE_NUM samples, the store, the fetch_add
WorkerPixel(t) ==
    /\ Running
    /\ wpc[t] = "sample"
    /\ ~LoopDone(wi[t], wrows[t])
    /\ local' = [local EXCEPT ![t][LocalIndex(wi[t], wj[t], wrows[t][1])] =
                                   SamplesAverage(wi[t], wj[t])]
    /\ LET origins == SampleOrigins(SAMPLE_NUM, camera.defocus_angle) IN
         /\ rayCalls' = rayCalls + Len(origins)
         /\ eyeRays' = eyeRays + Len(SelectSeq(origins, LAMBDA o : o = "eye"))
         /\ diskRays' = diskRays + Len(SelectSeq(origins, LAMBDA o : o = "defocus_sample"))
    /\ counter' = FetchAdd(counter)
    /\ IF wj[t] + 1 < Width
       THEN wj' = [wj EXCEPT ![t] = wj[t] + 1] /\ wi' = wi
       ELSE wj' = [wj EXCEPT ![t] = 0] /\ wi' = [wi EXCEPT ![t] = wi[t] + 1]
    /\ UNCHANGED <<conf, camera, mainpc, mainK, header, photo, bufw, pixels, writers,
                   lockHeld, wpc, wrows, obspc, completed, printed, console>>

\* a panic inside ray_color (the scene's hit or a material's scatter)
WorkerPanic(t) ==
    /\ Running
    /\ wpc[t] = "sample"
    /\ ~LoopDone(wi[t], wrows[t])
    /\ wpc' = [wpc EXCEPT ![t] = "panicked"]
    /\ UNCHANGED <<conf, camera, mainpc, mainK, header, photo, bufw, pixels, writers,
                   counter, lockHeld, wrows, wi, wj, local, rayCalls, eyeRays, diskRays, obspc,
                   completed, printed, console>>

\* line 150: pixels.lock().unwrap(), reached when the sampling loops end
WorkerLock(t) ==
    /\ Running
    /\ wpc[t] = "sample"
    /\ LoopDone(wi[t], wrows[t])
    /\ LockFree(lockHeld)
    /\ lockHeld' = lockHeld \cup {WorkerGuard(t)}
    /\ wpc' = [wpc EXCEPT ![t] = "copy"]
    /\ wi' = [wi EXCEPT ![t] = wrows[t][1]]
    /\ wj' = [wj EXCEPT ![t] = 0]
    /\ UNCHANGED <<conf, camera, mainpc, mainK, header, photo, bufw, pixels, writers,
                   counter, wrows, local, rayCalls, eyeRays, diskRays, obspc, completed, printed,
                   console>>

\* line 153: one store of the copy-in loops
WorkerCopy(t) ==
    /\ Running
    /\ wpc[t] = "copy"
    /\ ~LoopDone(wi[t], wrows[t])
    /\ LET to == SharedIndex(wi[t], wj[t])
           from == LocalIndex(wi[t], wj[t], wrows[t][1])
       IN  /\ pixels' = [pixels EXCEPT ![to] = local[t][from]]
           /\ writers' = [writers EXCEPT ![to] = Append(@, t)]
    /\ IF wj[t] + 1 < Width
       THEN wj' = [wj EXCEPT ![t] = wj[t] + 1] /\ wi' = wi
       ELSE wj' = [wj EXCEPT ![t] = 0] /\ wi' = [wi EXCEPT ![t] = wi[t] + 1]
    /\ UNCHANGED <<conf, camera, mainpc, mainK, header, photo, bufw, counter,
                   lockHeld, wpc, wrows, local, rayCalls, eyeRays, diskRays, obspc, completed,
                   printed, console>>

\* line 156: the closure ends, the guard is dropped
WorkerExit(t) ==
    /\ Running
    /\ wpc[t] = "copy"
    /\ LoopDone(wi[t], wrows[t])
    /\ lockHeld' = lockHeld \ {WorkerGuard(t)}
    /\ wpc' = [wpc EXCEPT ![t] = "done"]
    /\ UNCHANGED <<conf, camera, mainpc, mainK, header, photo, bufw, pixels, writers,
                   counter, wrows, wi, wj, local, rayCalls, eyeRays, diskRays, obspc, completed,
                   printed, console>>

\* ---- the progress thread ------------------------------------------------
\* lines 163-168: load, print, test
ObserverPoll ==
    /\ Running
    /\ obspc = "load"
    /\ completed' = counter
    /\ counter' = AfterLoad(counter)
    /\ printed' = <<Percentage(counter, Total)>>
    /\ obspc' = IF ObserverDone(counter, Total) THEN "done" ELSE "sleep"
    /\ UNCHANGED <<conf, camera, mainpc, mainK, header, photo, bufw, pixels, writers,
                   lockHeld, wpc, wrows, wi, wj, local, rayCalls, eyeRays, diskRays,
                   console>>

\* line 169: thread::sleep returns
ObserverWake ==
    /\ Running
    /\ obspc = "sleep"
    /\ obspc' = "load"
    /\ UNCHANGED <<conf, camera, mainpc, mainK, header, photo, bufw, pixels, writers,
                   counter, lockHeld, wpc, wrows, wi, wj, local, rayCalls, eyeRays, diskRays,
                   completed, printed, console>>

Next ==
    \/ MainHeader
    \/ MainSpawnWorker
    \/ MainSpawnProgress
    \/ MainJoinWorker
    \/ MainJoinProgress
    \/ MainWritePixel
    \/ MainDrained
    \/ MainConvert
    \/ \E t \in Threads : WorkerStart(t)
    \/ \E t \in Threads : WorkerPixel(t)
    \/ \E t \in Threads : WorkerPanic(t)
    \/ \E t \in Threads : WorkerLock(t)
    \/ \E t \in Threads : WorkerCopy(t)
    \/ \E t \in Threads : WorkerExit(t)
    \/ ObserverPoll
    \/ ObserverWake

Spec == Init /\ [][Next]_vars

\* The steps of each thread, a panic left out: the scheduler owes every thread
\* that can run a step, and no thread a panic.
MainStep ==
    \/ MainHeader
    \/ MainSpawnWorker
    \/ MainSpawnProgress
    \/ MainJoinWorker
    \/ MainJoinProgress
    \/ MainWritePixel
    \/ MainDrained
    \/ MainConvert

WorkerStep(t) ==
    /\ t \in Threads
    /\ (WorkerStart(t) \/ WorkerPixel(t) \/ WorkerLock(t) \/ WorkerCopy(t) \/ WorkerExit(t))

ObserverStep == ObserverPoll \/ ObserverWake

FairSpec ==
    /\ Init
    /\ [][Next]_vars
    /\ WF_vars(MainStep)
    /\ \A t \in 0 .. MaxThreads - 1 : WF_vars(WorkerStep(t))
    /\ WF_vars(ObserverStep)

\* ---- vocabulary of the properties ----------------------------------------
\* workers that have computed their band (lines 112-117 done)
Started == {t \in Threads : wpc[t] \notin {"unspawned", "start"}}

InBand(r, t) == wrows[t][1] <= r /\ r < wrows[t][2]

BandRows(t) == wrows[t][2] - wrows[t][1]

Sampling(t) == wpc[t] = "sample" /\ ~LoopDone(wi[t], wrows[t])

AllWorkersDone == \A t \in Threads : wpc[t] = "done"

AnyPanicked == \E t \in Threads : wpc[t] = "panicked"

\* the join loop of lines 173-175 has returned from every handle
WorkersJoined ==
    \/ mainpc = "join" /\ mainK = NumThreads
    \/ mainpc \in {"drain", "convert", "done"}

\* C1: the bands the workers compute are pairwise disjoint, lie inside the
\* image, and once every worker has computed its band each row 0..height-1
\* belongs to exactly one band (also when height < THREADS_NUM).
C1_BandsPartitionRows ==
    /\ \A t \in Started : 0 <= wrows[t][1] /\ wrows[t][1] <= wrows[t][2] /\ wrows[t][2] <= Height
    /\ \A r \in 0 .. Height - 1 : Cardinality({t \in Started : InBand(r, t)}) <= 1
    /\ Started = Threads =>
         \A r \in 0 .. Height - 1 : Cardinality({t \in Threads : InBand(r, t)}) = 1

C1_Witness ==
    /\ Started = Threads
    /\ Height < NumThreads
    /\ Height >= 2

\* C2: every worker but the last gets floor(height/THREADS_NUM) rows, the
\* last gets height - (THREADS_NUM-1)*floor(height/THREADS_NUM) rows, which is
\* never less than the others' share and exceeds it exactly when THREADS_NUM
\* does not divide height.
C2_BandSizes ==
    \A t \in Started :
        IF t = NumThreads - 1
        THEN /\ BandRows(t) = Height - (NumThreads - 1) * (Height \div NumThreads)
             /\ BandRows(t) >= Height \div NumThreads
             /\ (BandRows(t) > Height \div NumThreads) <=> (Height % NumThreads # 0)
        ELSE BandRows(t) = Height \div NumThreads

C2_Witness ==
    /\ Started = Threads
    /\ NumThreads = 3
    /\ Height = 4
    /\ BandRows(0) = 1 /\ BandRows(1) = 1 /\ BandRows(2) = 2

\* C3: every index of the shared buffer is black until stored into, is stored
\* into at most once, only by the worker whose band holds its row, and exactly
\* once by the time the workers are joined; a store changes one index of the
\* storing worker's band and nothing else of the buffer.
C3_StoreDiscipline ==
    mainpc # "header" =>
        /\ DOMAIN pixels = 0 .. Total - 1
        /\ \A k \in DOMAIN pixels :
             /\ Len(writers[k]) <= 1
             /\ writers[k] = <<>> => pixels[k] = BLACK
             /\ \A n \in DOMAIN writers[k] : InBand(k \div Width, writers[k][n])
             /\ WorkersJoined => Len(writers[k]) = 1

C3_StoreFrame ==
    mainpc # "header" =>
        \A k \in DOMAIN pixels :
            pixels'[k] # pixels[k] =>
                \E t \in Threads :
                    /\ wpc[t] = "copy"
                    /\ InBand(k \div Width, t)
                    /\ \A m \in DOMAIN pixels : ~InBand(m \div Width, t) => pixels'[m] = pixels[m]

C3_WrittenOnce == [](C3_StoreDiscipline) /\ [][C3_StoreFrame]_vars

C3_Witness ==
    /\ WorkersJoined
    /\ NumThreads >= 2
    /\ Total >= 4
    /\ \A k \in DOMAIN pixels : Len(writers[k]) = 1
    /\ \E k, m \in DOMAIN pixels : writers[k] # writers[m]

\* C4: once every worker has been joined the progress counter is exactly
\* width * height.
C4_CounterIsTotal == WorkersJoined => counter = Width * Height

C4_Witness ==
    /\ WorkersJoined
    /\ NumThreads >= 2
    /\ counter >= 4
    /\ \A t \in Threads : BandRows(t) >= 1

\* C5: the counter never decreases, changes only by +1 and only in a step in
\* which one worker completes one pixel, and never exceeds width * height.
C5_CounterStep ==
    counter' # counter =>
        /\ counter' = counter + 1
        /\ \E t \in Threads :
             /\ Sampling(t)
             /\ local'[t] # local[t]
             /\ <<wi'[t], wj'[t]>> # <<wi[t], wj[t]>>
             /\ \A u \in Threads \ {t} : local'[u] = local[u] /\ wi'[u] = wi[u] /\ wj'[u] = wj[u]

C5_CounterBound == counter >= 0 /\ counter <= Width * Height

C5_CounterMonotone == [](C5_CounterBound) /\ [][C5_CounterStep]_vars

C5_Witness ==
    /\ counter = Width * Height
    /\ counter >= 4
    /\ NumThreads >= 2

\* C6: render writes no pixel line, and does not take the buffer for the
\* drain, before every worker and the progress thread have ended; whenever a
\* pixel line is in the file every buffer index holds the value its worker
\* computed.
C6_DrainAfterJoins ==
    (mainpc = "drain" \/ photo # <<>> \/ MainGuard \in lockHeld) =>
        /\ AllWorkersDone
        /\ obspc = "done"
        /\ \A t \in Threads : \A i \in wrows[t][1] .. wrows[t][2] - 1 : \A j \in 0 .. Width - 1 :
             /\ pixels[i * Width + j] = local[t][(i - wrows[t][1]) * Width + j]
             /\ pixels[i * Width + j] # BLACK

C6_Witness ==
    /\ Len(photo) = 1
    /\ NumThreads >= 2
    /\ Total >= 4

\* C7 (under FairSpec): unless a worker panics, the render reaches the point
\* where every worker and the progress thread have ended and the whole image
\* is written; and no state short of render's end is without a next step.
C7_ImageWritten ==
    /\ AllWorkersDone
    /\ obspc = "done"
    /\ mainpc \in {"convert", "done"}
    /\ Len(photo) = Total

C7_NoDeadlock == Running => ENABLED Next

C7_Terminates == <>(AnyPanicked \/ C7_ImageWritten) /\ [](C7_NoDeadlock)

C7_Witness ==
    /\ C7_ImageWritten
    /\ NumThreads >= 2
    /\ Total >= 4

\* C8: at most one thread holds the buffer lock; a worker holds it exactly
\* while it is in its copy-in step, which it enters only with every pixel of
\* its band sampled; a worker in its sampling loop never holds it.
C8_LockOnlyForCopy ==
    /\ Cardinality(lockHeld) <= 1
    /\ \A t \in Threads :
         /\ WorkerGuard(t) \in lockHeld <=> wpc[t] = "copy"
         /\ wpc[t] = "copy" =>
              \A k \in 0 .. BandRows(t) * Width - 1 : local[t][k] # BLACK

\* some worker copies in under the lock while two others are still sampling
C8_Witness ==
    \E t1, t2, t3 \in Threads :
        /\ t1 # t2 /\ t1 # t3 /\ t2 # t3
        /\ wpc[t1] = "copy" /\ WorkerGuard(t1) \in lockHeld /\ ~LoopDone(wi[t1], wrows[t1])
        /\ Sampling(t2)
        /\ Sampling(t3)

\* C9: with a per-pixel sampling function, the buffer that is drained, and
\* the pixel lines written from it, are a function of (row, column) alone,
\* whatever the interleaving and the order of lock acquisition.
C9_DeterministicImage ==
    mainpc \in {"drain", "convert", "done"} =>
        /\ \A i \in 0 .. Height - 1 : \A j \in 0 .. Width - 1 :
             pixels[i * Width + j] = RayColor(i, j)
        /\ \A n \in DOMAIN photo :
             photo[n] = WriteColor(RayColor((n - 1) \div Width, (n - 1) % Width))

C9_Witness ==
    /\ mainpc = "done"
    /\ NumThreads = 3
    /\ Width = 2
    /\ Height = 4
    /\ Len(photo) = Total

\* C10: height is floor(width / aspect_ratio) raised to at least 1, the header
\* declares the buffer's dimensions, the buffer has width * height entries and
\* as many pixel lines follow the header.
C10_HeightFloor ==
    LET num == conf.WIDTH * conf.ASPECT_RATIO[2]
        den == Scale * conf.ASPECT_RATIO[1]
        h == camera.height
    IN  /\ h = AsF64(Height)
        /\ Height >= 1
        /\ num < den => Height = 1
        /\ num >= den => Height * den <= num /\ num < (Height + 1) * den

Printed(msg) == \E n \in DOMAIN console : console[n] = msg

\* every line of the image, header first, is in out.ppm
WholeFile == [n \in 1 .. Total + 1 |-> n - 1]

\* C11: once the conversion has been started, whatever its outcome, render
\* goes on to print the completion message, and out.ppm keeps the whole image.
C11_ConversionNonFatal ==
    (Printed("Convert ppm to png") /\ mainpc # "convert") =>
        /\ mainpc = "done"
        /\ console[Len(console)] = "Completed!"
        /\ bufw.file = WholeFile

\* C12 (under FairSpec): once a worker has panicked, render never hands a
\* pixel line to the writer, never leaves the joins for the drain and never
\* prints the completion message, and it ends aborted.
C12_NoPartialResult ==
    AnyPanicked =>
        /\ photo = <<>>
        /\ \A n \in DOMAIN bufw.file : bufw.file[n] = 0
        /\ \A n \in DOMAIN bufw.buf : bufw.buf[n] = 0
        /\ mainpc \in {"spawn", "join", "aborted"}
        /\ ~Printed("Completed!")

C12_PanicAborts ==
    [](C12_NoPartialResult) /\ (AnyPanicked ~> mainpc = "aborted")

C12_Witness ==
    /\ mainpc = "aborted"
    /\ AnyPanicked
    /\ \E t \in Threads : wpc[t] = "copy"
    /\ \E t \in Threads : Sampling(t)
    /\ obspc = "sleep"

\* C13: each sampled pixel costs exactly sample_num evaluations of the
\* integrator, so the evaluations number sample_num per completed pixel and
\* width * height * sample_num over a whole render; the stored colour is the
\* sum of the pixel's sample_num results, from black, divided by sample_num.
C13_SamplesPerPixel ==
    /\ rayCalls = counter * SAMPLE_NUM
    /\ WorkersJoined => rayCalls = Width * Height * SAMPLE_NUM
    /\ \A t \in Started : \A i \in wrows[t][1] .. wrows[t][2] - 1 : \A j \in 0 .. Width - 1 :
         LET stored == local[t][(i - wrows[t][1]) * Width + j]
             sampled == wpc[t] \in {"copy", "done"} \/ i < wi[t] \/ (i = wi[t] /\ j < wj[t])
         IN  IF sampled
             THEN stored * SAMPLE_NUM = BLACK + SAMPLE_NUM * RayColor(i, j)
             ELSE stored = BLACK

C13_Witness ==
    /\ WorkersJoined
    /\ NumThreads >= 2
    /\ rayCalls >= 4 * SAMPLE_NUM

\* C14: with defocus_angle <= 0 every sample ray starts at the eye and
\* defocus_sample is never called; with defocus_angle > 0 every sample ray
\* starts at a defocus_sample point.
C14_RayOrigins ==
    /\ eyeRays + diskRays = rayCalls
    /\ camera.defocus_angle <= 0 => diskRays = 0 /\ eyeRays = rayCalls
    /\ camera.defocus_angle > 0 => eyeRays = 0 /\ diskRays = rayCalls

C14_Witness ==
    /\ camera.defocus_angle = 0
    /\ WorkersJoined
    /\ eyeRays >= 4 * SAMPLE_NUM

\* C15 as stated: when the last thread, the observer, is spawned no worker
\* has sampled a pixel yet.
C15_NoSampleBeforeLastSpawn ==
    (mainpc = "spawn" /\ ~MoreToSpawn(mainK)) => counter = 0

\* C15 as amended: every worker and the observer are spawned before render
\* joins any of them, hence before any pixel line is written; a worker that is
\* not yet spawned has sampled nothing and the counter is 0 when the first
\* worker is spawned; workers spawned earlier may have sampled by the time
\* later threads are spawned.
C15_SpawnedBeforeJoin ==
    /\ mainpc \in {"join", "drain", "convert", "done"} =>
         /\ \A t \in Threads : wpc[t] # "unspawned"
         /\ obspc # "unspawned"
    /\ photo # <<>> => obspc # "unspawned" /\ \A t \in Threads : wpc[t] # "unspawned"
    /\ \A t \in Threads : wpc[t] = "unspawned" => local[t] = <<>> /\ t >= mainK
    /\ (\A t \in Threads : wpc[t] = "unspawned") => counter = 0

\* a worker has sampled while the observer is still to be spawned
C15_Witness ==
    /\ mainpc = "spawn"
    /\ ~MoreToSpawn(mainK)
    /\ obspc = "unspawned"
    /\ counter > 0

\* C16 as stated: nothing of the image, the header included, is written before
\* every worker has completed.
C16_OutputAfterWorkers ==
    (header # <<>> \/ photo # <<>>) => AllWorkersDone

\* C16 as amended: the header is handed to the buffered writer before any
\* worker is spawned and the pixel lines only after every worker has
\* completed; nothing reaches out.ppm itself before every worker has completed,
\* except for the flush when render aborts; the writer keeps the order header,
\* then pixel lines.
C16_WriteOrder ==
    /\ mainpc # "header" => header # <<>>
    /\ (\E t \in Threads : wpc[t] # "unspawned") => header # <<>>
    /\ photo # <<>> => AllWorkersDone
    /\ bufw.file # <<>> => AllWorkersDone \/ mainpc = "aborted"
    /\ bufw.file \o bufw.buf =
         IF header = <<>> THEN <<>> ELSE [n \in 1 .. Len(photo) + 1 |-> n - 1]

\* the header reaches the file in the drain, with every worker done
C16_Witness ==
    /\ mainpc = "drain"
    /\ NumThreads >= 2
    /\ bufw.file # <<>>
    /\ bufw.file[1] = 0
    /\ bufw.buf # <<>>

C18_RowMajor ==
    /\ \A n \in DOMAIN photo :
         LET i == (n - 1) \div Width
             j == (n - 1) % Width
         IN  \E t \in Threads :
                 /\ InBand(i, t)
                 /\ photo[n] = WriteColor(local[t][(i - wrows[t][1]) * Width + j])
    /\ \A k \in DOMAIN pixels : \A n \in DOMAIN writers[k] :
         LET t == writers[k][n]
             i == k \div Width
             j == k % Width
         IN  pixels[k] = local[t][(i - wrows[t][1]) * Width + j]
    /\ \A t \in Threads : wpc[t] = "done" =>
         {k \in DOMAIN pixels : \E n \in DOMAIN writers[k] : writers[k][n] = t}
             = {i * Width + j : i \in wrows[t][1] .. wrows[t][2] - 1, j \in 0 .. Width - 1}

C18_Witness ==
    /\ Len(photo) = Total
    /\ Width = 2
    /\ Height = 4
    /\ NumThreads = 3

\* C19: a step of the progress thread changes neither the counter nor the
\* shared buffer nor a private buffer nor the file; and the shared buffer is a
\* function of the stores made into it, whatever the progress thread has read.
C19_ObserverStepFrame ==
    (obspc # "unspawned" /\ obspc' # obspc) =>
        UNCHANGED <<counter, pixels, writers, local, photo, bufw>>

C19_BufferIgnoresObserver ==
    mainpc # "header" =>
        \A k \in DOMAIN pixels :
            pixels[k] = IF writers[k] = <<>> THEN BLACK ELSE RayColor(k \div Width, k % Width)

C19_ObserverReadsOnly ==
    [](C19_BufferIgnoresObserver) /\ [][C19_ObserverStepFrame]_vars

\* the progress thread sleeps on a value the counter has since passed
C19_Witness ==
    /\ obspc = "sleep"
    /\ completed > 0
    /\ completed < counter
    /\ \E k \in DOMAIN pixels : writers[k] # <<>>

\* C20: a worker's private buffer has (end_row - start_row) * width entries,
\* possibly none, and every index it uses is inside the buffer indexed: the
\* private index in the sampling and copy-in loops, the shared index in the
\* copy-in loop.
C20_AccessInBounds ==
    \A t \in Started :
        /\ wrows[t][2] >= wrows[t][1]
        /\ DOMAIN local[t] = 0 .. (wrows[t][2] - wrows[t][1]) * Width - 1
        /\ (wpc[t] \in {"sample", "copy"} /\ ~LoopDone(wi[t], wrows[t])) =>
             LET p == LocalIndex(wi[t], wj[t], wrows[t][1]) IN
               /\ 0 <= p /\ p < (wrows[t][2] - wrows[t][1]) * Width
               /\ p \in DOMAIN local[t]
        /\ (wpc[t] = "copy" /\ ~LoopDone(wi[t], wrows[t])) =>
             LET q == SharedIndex(wi[t], wj[t]) IN
               /\ 0 <= q /\ q < Width * Height
               /\ q \in DOMAIN pixels

\* one worker has an empty band while another copies the last pixel of its own
C20_Witness ==
    \E t, u \in Started :
        /\ wrows[t][2] = wrows[t][1]
        /\ local[t] = <<>>
        /\ wpc[u] = "copy"
        /\ Width = 2
        /\ wi[u] = Height - 1 /\ wj[u] = Width - 1

====
